---- MODULE Spec2Model ----
(***************************************************************************)
(* Model of document_ai_app.py: the "Process Document" handler of the      *)
(* Document AI Processor.  One triggered run is: credential check, input   *)
(* acquisition (extract_text or pasted text), prompt construction, the     *)
(* assignment of the process-wide openai.api_key, the completion call and  *)
(* the interpretation of the reply (json.loads, statistics, download).     *)
(*                                                                         *)
(* Text is a sequence of code points; a JSON number n stands for n/100.    *)
(* The model, temperature and max_tokens widgets are passed through to the *)
(* completion call unchanged and are left out.                             *)
(***************************************************************************)
EXTENDS Integers, Sequences, FiniteSets

VARIABLES
    api_key,          \* sidebar text input (line 48)
    uploaded_file,    \* st.file_uploader value (line 72)
    text_input,       \* st.text_area value (line 78)
    extraction_mode,  \* st.radio value (line 59)
    schema,           \* schema template (lines 81-93)
    pc,               \* position of the script run inside the handler
    input_text,       \* local of the handler (lines 102-108)
    prompt,           \* local of the handler (lines 116-145)
    openai_api_key,   \* the process-wide openai.api_key (line 148)
    calls,            \* completion calls made in this run, in order
    extractions,      \* extract_text invocations in this run
    result,           \* response.choices[0].message.content (line 157)
    ui                \* what the run has put on the page

vars == <<api_key, uploaded_file, text_input, extraction_mode, schema, pc,
          input_text, prompt, openai_api_key, calls, extractions, result, ui>>

(***************************************************************************)
(* Bounds.                                                                 *)
(***************************************************************************)
\* longest byte string of a text file, most pages of a PDF / paragraphs
MaxUnits == 2
\* most nodes (containers and leaves) of a JSON value in a reply, when the
\* interpretation is checked on its own
MaxNodes == 3

(***************************************************************************)
(* Text helpers.                                                           *)
(***************************************************************************)
RECURSIVE Join(_, _)
\* sep.join(units)
Join(sep, units) ==
    IF units = <<>> THEN <<>>
    ELSE IF Len(units) = 1 THEN units[1]
    ELSE units[1] \o sep \o Join(sep, Tail(units))

\* "\n"
Newline == <<10>>

\* Python's optional values: None or a str
None == [isNone |-> TRUE, s |-> <<>>]
Some(s) == [isNone |-> FALSE, s |-> s]
\* `not x` for x a str or None
Falsy(x) == x.isNone \/ x.s = <<>>

RECURSIVE SeqsUpTo(_, _)
\* all sequences over S of length at most n
SeqsUpTo(S, n) ==
    IF n = 0 THEN {<<>>}
    ELSE LET shorter == SeqsUpTo(S, n - 1)
         IN  shorter \cup {Append(s, x) : s \in shorter, x \in S}

(***************************************************************************)
(* UTF-8 decoding: str(file.getvalue(), "utf-8") (line 37).                *)
(***************************************************************************)
IsCont(b) == b >= 128 /\ b <= 191

\* number of continuation bytes a lead byte announces, -1 for an invalid lead
Following(b) ==
    IF b < 128 THEN 0
    ELSE IF b >= 194 /\ b <= 223 THEN 1
    ELSE IF b >= 224 /\ b <= 239 THEN 2
    ELSE IF b >= 240 /\ b <= 244 THEN 3
    ELSE -1

\* the second byte of a multi-byte form excludes overlong forms and surrogates
SecondOk(lead, b) ==
    /\ IsCont(b)
    /\ lead = 224 => b >= 160
    /\ lead = 237 => b <= 159
    /\ lead = 240 => b >= 144
    /\ lead = 244 => b <= 143

RECURSIVE Utf8Decode(_)
\* [ok, s]: the decoded code points, or ok = FALSE for UnicodeDecodeError
Utf8Decode(bytes) ==
    IF bytes = <<>> THEN [ok |-> TRUE, s |-> <<>>]
    ELSE
      LET lead == bytes[1]
          n == Following(lead)
      IN  IF n = -1 \/ Len(bytes) < n + 1 THEN [ok |-> FALSE, s |-> <<>>]
          ELSE IF n >= 1 /\ ~SecondOk(lead, bytes[2]) THEN [ok |-> FALSE, s |-> <<>>]
          ELSE IF \E i \in 3..(n + 1) : ~IsCont(bytes[i]) THEN [ok |-> FALSE, s |-> <<>>]
          ELSE
            LET cp == IF n = 0 THEN lead
                      ELSE IF n = 1 THEN (lead % 32) * 64 + (bytes[2] % 64)
                      ELSE IF n = 2 THEN (lead % 16) * 4096 + (bytes[2] % 64) * 64
                                         + (bytes[3] % 64)
                      ELSE (lead % 8) * 262144 + (bytes[2] % 64) * 4096
                           + (bytes[3] % 64) * 64 + (bytes[4] % 64)
                rest == Utf8Decode(SubSeq(bytes, n + 2, Len(bytes)))
            IN  IF rest.ok THEN [ok |-> TRUE, s |-> <<cp>> \o rest.s]
                ELSE [ok |-> FALSE, s |-> <<>>]

(***************************************************************************)
(* Uploaded files.  type is the declared content type; bytes is the        *)
(* content of a text file; for PDF and Word files the parsing libraries    *)
(* are summarised by wellformed (the parser does not raise) and units (the *)
(* text of each page / paragraph).                                         *)
(***************************************************************************)
TypePdf == "application/pdf"
TypeDocx == "application/vnd.openxmlformats-officedocument.wordprocessingml.document"
TypeText == "text/plain"
TypeOther == "image/png"
TypeZip == "application/zip"

File(type, bytes, wellformed, units) ==
    [present |-> TRUE, type |-> type, bytes |-> bytes,
     wellformed |-> wellformed, units |-> units]

NoFile == [present |-> FALSE, type |-> "", bytes |-> <<>>,
           wellformed |-> FALSE, units |-> <<>>]

\* bytes of "A" and of the two bytes of U+00E9
FileBytes == {65, 195, 169}
\* text of one page or paragraph: empty or "A"
UnitTexts == {<<>>, <<65>>}

Files ==
    {File(TypeText, b, TRUE, <<>>) : b \in SeqsUpTo(FileBytes, MaxUnits)}
    \cup {File(t, <<>>, TRUE, u) : t \in {TypePdf, TypeDocx}, u \in SeqsUpTo(UnitTexts, MaxUnits)}
    \cup {File(t, <<>>, FALSE, <<>>) : t \in {TypePdf, TypeDocx}}
    \cup {File(t, <<65>>, TRUE, <<>>) : t \in {TypeOther, TypeZip}}

(***************************************************************************)
(* Reply text and JSON values.  A reply is a sequence of lexical tokens;   *)
(* "prose" is any text that is no JSON token.  Every token and every value *)
(* carries all fields, so that any two of them can be compared.  A number  *)
(* token n is the decimal text of n/100.  "true", "false", "NaN",          *)
(* "Infinity" and "-Infinity" are the literals json.loads knows besides    *)
(* "null"; "deep" is a run of "[" longer than the recursion limit of the   *)
(* interpreter, with nothing closing it.                                   *)
(***************************************************************************)
Tok(k) == [k |-> k, n |-> 0, s |-> <<>>]
NumTok(n) == [k |-> "num", n |-> n, s |-> <<>>]
StrTok(s) == [k |-> "str", n |-> 0, s |-> s]

NullV == [t |-> "null", n |-> 0, s |-> <<>>, keys |-> <<>>, items |-> <<>>]
NumV(n) == [t |-> "num", n |-> n, s |-> <<>>, keys |-> <<>>, items |-> <<>>]
StrV(s) == [t |-> "str", n |-> 0, s |-> s, keys |-> <<>>, items |-> <<>>]
ArrV(items) == [t |-> "arr", n |-> 0, s |-> <<>>, keys |-> <<>>, items |-> items]
ObjV(keys, items) == [t |-> "obj", n |-> 0, s |-> <<>>, keys |-> keys, items |-> items]
\* True and False, float('nan'), float('inf') and float('-inf')
BoolV(b) == [t |-> "bool", n |-> IF b THEN 1 ELSE 0, s |-> <<>>, keys |-> <<>>, items |-> <<>>]
NanV == [t |-> "nan", n |-> 0, s |-> <<>>, keys |-> <<>>, items |-> <<>>]
InfV(sign) == [t |-> "inf", n |-> sign, s |-> <<>>, keys |-> <<>>, items |-> <<>>]

\* isinstance(v, dict), isinstance(v, list); the values sum() adds: int,
\* float and bool
IsDict(v) == v.t = "obj"
IsList(v) == v.t = "arr"
IsNumber(v) == v.t \in {"num", "bool", "nan", "inf"}

\* d[k] = v on a dict held as parallel key and value sequences: a key that is
\* already there keeps its place and takes the new value
DictPut(keys, items, k, v) ==
    IF \E i \in 1..Len(keys) : keys[i] = k
    THEN LET i == CHOOSE j \in 1..Len(keys) : keys[j] = k
         IN  [keys |-> keys, items |-> [items EXCEPT ![i] = v]]
    ELSE [keys |-> Append(keys, k), items |-> Append(items, v)]

\* the parse raises: JSONDecodeError, or RecursionError
ParseFail == [ok |-> FALSE, val |-> NullV, rest |-> <<>>, err |-> "JSONDecodeError"]
ParseTooDeep == [ok |-> FALSE, val |-> NullV, rest |-> <<>>, err |-> "RecursionError"]
Parsed(val, rest) == [ok |-> TRUE, val |-> val, rest |-> rest, err |-> ""]

RECURSIVE ParseValue(_), ParsePairs(_, _, _), ParseElems(_, _)
\* one JSON value at the head of toks: [ok, val, rest, err]
ParseValue(toks) ==
    IF toks = <<>> THEN ParseFail
    ELSE LET h == Head(toks)
             r == Tail(toks)
         IN  IF h.k = "num" THEN Parsed(NumV(h.n), r)
             ELSE IF h.k = "str" THEN Parsed(StrV(h.s), r)
             ELSE IF h.k = "null" THEN Parsed(NullV, r)
             ELSE IF h.k = "true" THEN Parsed(BoolV(TRUE), r)
             ELSE IF h.k = "false" THEN Parsed(BoolV(FALSE), r)
             ELSE IF h.k = "NaN" THEN Parsed(NanV, r)
             ELSE IF h.k = "Infinity" THEN Parsed(InfV(1), r)
             ELSE IF h.k = "-Infinity" THEN Parsed(InfV(-1), r)
             ELSE IF h.k = "{" THEN
                 IF r # <<>> /\ Head(r).k = "}"
                 THEN Parsed(ObjV(<<>>, <<>>), Tail(r))
                 ELSE ParsePairs(r, <<>>, <<>>)
             ELSE IF h.k = "[" THEN
                 IF r # <<>> /\ Head(r).k = "]"
                 THEN Parsed(ArrV(<<>>), Tail(r))
                 ELSE ParseElems(r, <<>>)
             ELSE IF h.k = "deep" THEN ParseTooDeep
             ELSE ParseFail

\* "key" : value, then "," and another pair, or "}"
ParsePairs(toks, keys, items) ==
    IF Len(toks) < 2 \/ toks[1].k # "str" \/ toks[2].k # ":" THEN ParseFail
    ELSE LET v == ParseValue(SubSeq(toks, 3, Len(toks)))
         IN  IF ~v.ok THEN v
             ELSE IF v.rest = <<>> THEN ParseFail
             ELSE LET d == DictPut(keys, items, toks[1].s, v.val)
                      sep == Head(v.rest)
                  IN  IF sep.k = "}"
                      THEN Parsed(ObjV(d.keys, d.items), Tail(v.rest))
                      ELSE IF sep.k = ","
                      THEN ParsePairs(Tail(v.rest), d.keys, d.items)
                      ELSE ParseFail

\* value, then "," and another value, or "]"
ParseElems(toks, items) ==
    LET v == ParseValue(toks)
    IN  IF ~v.ok THEN v
        ELSE IF v.rest = <<>> THEN ParseFail
        ELSE LET sep == Head(v.rest)
             IN  IF sep.k = "]"
                 THEN Parsed(ArrV(Append(items, v.val)), Tail(v.rest))
                 ELSE IF sep.k = ","
                 THEN ParseElems(Tail(v.rest), Append(items, v.val))
                 ELSE ParseFail

\* json.loads (line 160): ok = FALSE stands for the exception err; text
\* after the value is "Extra data", a JSONDecodeError
JsonLoads(text) ==
    LET v == ParseValue(text)
    IN  IF ~v.ok THEN [ok |-> FALSE, val |-> NullV, err |-> v.err]
        ELSE IF v.rest = <<>> THEN [ok |-> TRUE, val |-> v.val, err |-> ""]
        ELSE [ok |-> FALSE, val |-> NullV, err |-> "JSONDecodeError"]

RECURSIVE JsonDumps(_), DumpPairs(_, _), DumpElems(_)
\* json.dumps (line 201); indentation is white space and yields no token
JsonDumps(v) ==
    IF v.t = "num" THEN <<NumTok(v.n)>>
    ELSE IF v.t = "str" THEN <<StrTok(v.s)>>
    ELSE IF v.t = "null" THEN <<Tok("null")>>
    ELSE IF v.t = "bool" THEN <<Tok(IF v.n = 1 THEN "true" ELSE "false")>>
    ELSE IF v.t = "nan" THEN <<Tok("NaN")>>
    ELSE IF v.t = "inf" THEN <<Tok(IF v.n > 0 THEN "Infinity" ELSE "-Infinity")>>
    ELSE IF v.t = "obj" THEN <<Tok("{")>> \o DumpPairs(v.keys, v.items) \o <<Tok("}")>>
    ELSE <<Tok("[")>> \o DumpElems(v.items) \o <<Tok("]")>>

DumpPairs(keys, items) ==
    IF keys = <<>> THEN <<>>
    ELSE <<StrTok(keys[1]), Tok(":")>> \o JsonDumps(items[1])
         \o (IF Len(keys) = 1 THEN <<>>
             ELSE <<Tok(",")>> \o DumpPairs(Tail(keys), Tail(items)))

DumpElems(items) ==
    IF items = <<>> THEN <<>>
    ELSE JsonDumps(items[1])
         \o (IF Len(items) = 1 THEN <<>>
             ELSE <<Tok(",")>> \o DumpElems(Tail(items)))

(***************************************************************************)
(* "confidence" in str(k).lower()  (lines 178, 183).                       *)
(***************************************************************************)
\* "confidence"
Confidence == <<99, 111, 110, 102, 105, 100, 101, 110, 99, 101>>

\* str.lower follows the Unicode character database of the interpreter
\* (Unicode 14).  Each entry <<first, last, step, delta>> of LowerRuns gives
\* the lowercase letter c + delta for the code points first, first + step,
\* ..., last.
LowerRuns ==
    <<
    <<65, 90, 1, 32>>, <<192, 214, 1, 32>>, <<216, 222, 1, 32>>,
    <<256, 302, 2, 1>>, <<306, 310, 2, 1>>, <<313, 327, 2, 1>>,
    <<330, 374, 2, 1>>, <<376, 376, 1, -121>>, <<377, 381, 2, 1>>,
    <<385, 385, 1, 210>>, <<386, 388, 2, 1>>, <<390, 390, 1, 206>>,
    <<391, 391, 1, 1>>, <<393, 394, 1, 205>>, <<395, 395, 1, 1>>,
    <<398, 398, 1, 79>>, <<399, 399, 1, 202>>, <<400, 400, 1, 203>>,
    <<401, 401, 1, 1>>, <<403, 403, 1, 205>>, <<404, 404, 1, 207>>,
    <<406, 406, 1, 211>>, <<407, 407, 1, 209>>, <<408, 408, 1, 1>>,
    <<412, 412, 1, 211>>, <<413, 413, 1, 213>>, <<415, 415, 1, 214>>,
    <<416, 420, 2, 1>>, <<422, 422, 1, 218>>, <<423, 423, 1, 1>>,
    <<425, 425, 1, 218>>, <<428, 428, 1, 1>>, <<430, 430, 1, 218>>,
    <<431, 431, 1, 1>>, <<433, 434, 1, 217>>, <<435, 437, 2, 1>>,
    <<439, 439, 1, 219>>, <<440, 440, 1, 1>>, <<444, 444, 1, 1>>,
    <<452, 452, 1, 2>>, <<453, 453, 1, 1>>, <<455, 455, 1, 2>>,
    <<456, 456, 1, 1>>, <<458, 458, 1, 2>>, <<459, 475, 2, 1>>,
    <<478, 494, 2, 1>>, <<497, 497, 1, 2>>, <<498, 500, 2, 1>>,
    <<502, 502, 1, -97>>, <<503, 503, 1, -56>>, <<504, 542, 2, 1>>,
    <<544, 544, 1, -130>>, <<546, 562, 2, 1>>, <<570, 570, 1, 10795>>,
    <<571, 571, 1, 1>>, <<573, 573, 1, -163>>, <<574, 574, 1, 10792>>,
    <<577, 577, 1, 1>>, <<579, 579, 1, -195>>, <<580, 580, 1, 69>>,
    <<581, 581, 1, 71>>, <<582, 590, 2, 1>>, <<880, 882, 2, 1>>,
    <<886, 886, 1, 1>>, <<895, 895, 1, 116>>, <<902, 902, 1, 38>>,
    <<904, 906, 1, 37>>, <<908, 908, 1, 64>>, <<910, 911, 1, 63>>,
    <<913, 929, 1, 32>>, <<931, 939, 1, 32>>, <<975, 975, 1, 8>>,
    <<984, 1006, 2, 1>>, <<1012, 1012, 1, -60>>, <<1015, 1015, 1, 1>>,
    <<1017, 1017, 1, -7>>, <<1018, 1018, 1, 1>>, <<1021, 1023, 1, -130>>,
    <<1024, 1039, 1, 80>>, <<1040, 1071, 1, 32>>, <<1120, 1152, 2, 1>>,
    <<1162, 1214, 2, 1>>, <<1216, 1216, 1, 15>>, <<1217, 1229, 2, 1>>,
    <<1232, 1326, 2, 1>>, <<1329, 1366, 1, 48>>, <<4256, 4293, 1, 7264>>,
    <<4295, 4295, 1, 7264>>, <<4301, 4301, 1, 7264>>,
    <<5024, 5103, 1, 38864>>, <<5104, 5109, 1, 8>>, <<7312, 7354, 1, -3008>>,
    <<7357, 7359, 1, -3008>>, <<7680, 7828, 2, 1>>, <<7838, 7838, 1, -7615>>,
    <<7840, 7934, 2, 1>>, <<7944, 7951, 1, -8>>, <<7960, 7965, 1, -8>>,
    <<7976, 7983, 1, -8>>, <<7992, 7999, 1, -8>>, <<8008, 8013, 1, -8>>,
    <<8025, 8031, 2, -8>>, <<8040, 8047, 1, -8>>, <<8072, 8079, 1, -8>>,
    <<8088, 8095, 1, -8>>, <<8104, 8111, 1, -8>>, <<8120, 8121, 1, -8>>,
    <<8122, 8123, 1, -74>>, <<8124, 8124, 1, -9>>, <<8136, 8139, 1, -86>>,
    <<8140, 8140, 1, -9>>, <<8152, 8153, 1, -8>>, <<8154, 8155, 1, -100>>,
    <<8168, 8169, 1, -8>>, <<8170, 8171, 1, -112>>, <<8172, 8172, 1, -7>>,
    <<8184, 8185, 1, -128>>, <<8186, 8187, 1, -126>>, <<8188, 8188, 1, -9>>,
    <<8486, 8486, 1, -7517>>, <<8490, 8490, 1, -8383>>,
    <<8491, 8491, 1, -8262>>, <<8498, 8498, 1, 28>>, <<8544, 8559, 1, 16>>,
    <<8579, 8579, 1, 1>>, <<9398, 9423, 1, 26>>, <<11264, 11311, 1, 48>>,
    <<11360, 11360, 1, 1>>, <<11362, 11362, 1, -10743>>,
    <<11363, 11363, 1, -3814>>, <<11364, 11364, 1, -10727>>,
    <<11367, 11371, 2, 1>>, <<11373, 11373, 1, -10780>>,
    <<11374, 11374, 1, -10749>>, <<11375, 11375, 1, -10783>>,
    <<11376, 11376, 1, -10782>>, <<11378, 11378, 1, 1>>,
    <<11381, 11381, 1, 1>>, <<11390, 11391, 1, -10815>>,
    <<11392, 11490, 2, 1>>, <<11499, 11501, 2, 1>>, <<11506, 11506, 1, 1>>,
    <<42560, 42604, 2, 1>>, <<42624, 42650, 2, 1>>, <<42786, 42798, 2, 1>>,
    <<42802, 42862, 2, 1>>, <<42873, 42875, 2, 1>>,
    <<42877, 42877, 1, -35332>>, <<42878, 42886, 2, 1>>,
    <<42891, 42891, 1, 1>>, <<42893, 42893, 1, -42280>>,
    <<42896, 42898, 2, 1>>, <<42902, 42920, 2, 1>>,
    <<42922, 42922, 1, -42308>>, <<42923, 42923, 1, -42319>>,
    <<42924, 42924, 1, -42315>>, <<42925, 42925, 1, -42305>>,
    <<42926, 42926, 1, -42308>>, <<42928, 42928, 1, -42258>>,
    <<42929, 42929, 1, -42282>>, <<42930, 42930, 1, -42261>>,
    <<42931, 42931, 1, 928>>, <<42932, 42946, 2, 1>>,
    <<42948, 42948, 1, -48>>, <<42949, 42949, 1, -42307>>,
    <<42950, 42950, 1, -35384>>, <<42951, 42953, 2, 1>>,
    <<42960, 42960, 1, 1>>, <<42966, 42968, 2, 1>>, <<42997, 42997, 1, 1>>,
    <<65313, 65338, 1, 32>>, <<66560, 66599, 1, 40>>, <<66736, 66771, 1, 40>>,
    <<66928, 66938, 1, 39>>, <<66940, 66954, 1, 39>>, <<66956, 66962, 1, 39>>,
    <<66964, 66965, 1, 39>>, <<68736, 68786, 1, 64>>, <<71840, 71871, 1, 32>>,
    <<93760, 93791, 1, 32>>, <<125184, 125217, 1, 34>>
    >>

\* <<first, last>>: the code points a Final_Sigma context skips
\* (Case_Ignorable)
CaseIgnorableRuns ==
    <<
    <<39, 39>>, <<46, 46>>, <<58, 58>>, <<94, 94>>, <<96, 96>>, <<168, 168>>,
    <<173, 173>>, <<175, 175>>, <<180, 180>>, <<183, 184>>, <<688, 879>>,
    <<884, 885>>, <<890, 890>>, <<900, 901>>, <<903, 903>>, <<1155, 1161>>,
    <<1369, 1369>>, <<1375, 1375>>, <<1425, 1469>>, <<1471, 1471>>,
    <<1473, 1474>>, <<1476, 1477>>, <<1479, 1479>>, <<1524, 1524>>,
    <<1536, 1541>>, <<1552, 1562>>, <<1564, 1564>>, <<1600, 1600>>,
    <<1611, 1631>>, <<1648, 1648>>, <<1750, 1757>>, <<1759, 1768>>,
    <<1770, 1773>>, <<1807, 1807>>, <<1809, 1809>>, <<1840, 1866>>,
    <<1958, 1968>>, <<2027, 2037>>, <<2042, 2042>>, <<2045, 2045>>,
    <<2070, 2093>>, <<2137, 2139>>, <<2184, 2184>>, <<2192, 2193>>,
    <<2200, 2207>>, <<2249, 2306>>, <<2362, 2362>>, <<2364, 2364>>,
    <<2369, 2376>>, <<2381, 2381>>, <<2385, 2391>>, <<2402, 2403>>,
    <<2417, 2417>>, <<2433, 2433>>, <<2492, 2492>>, <<2497, 2500>>,
    <<2509, 2509>>, <<2530, 2531>>, <<2558, 2558>>, <<2561, 2562>>,
    <<2620, 2620>>, <<2625, 2626>>, <<2631, 2632>>, <<2635, 2637>>,
    <<2641, 2641>>, <<2672, 2673>>, <<2677, 2677>>, <<2689, 2690>>,
    <<2748, 2748>>, <<2753, 2757>>, <<2759, 2760>>, <<2765, 2765>>,
    <<2786, 2787>>, <<2810, 2815>>, <<2817, 2817>>, <<2876, 2876>>,
    <<2879, 2879>>, <<2881, 2884>>, <<2893, 2893>>, <<2901, 2902>>,
    <<2914, 2915>>, <<2946, 2946>>, <<3008, 3008>>, <<3021, 3021>>,
    <<3072, 3072>>, <<3076, 3076>>, <<3132, 3132>>, <<3134, 3136>>,
    <<3142, 3144>>, <<3146, 3149>>, <<3157, 3158>>, <<3170, 3171>>,
    <<3201, 3201>>, <<3260, 3260>>, <<3263, 3263>>, <<3270, 3270>>,
    <<3276, 3277>>, <<3298, 3299>>, <<3328, 3329>>, <<3387, 3388>>,
    <<3393, 3396>>, <<3405, 3405>>, <<3426, 3427>>, <<3457, 3457>>,
    <<3530, 3530>>, <<3538, 3540>>, <<3542, 3542>>, <<3633, 3633>>,
    <<3636, 3642>>, <<3654, 3662>>, <<3761, 3761>>, <<3764, 3772>>,
    <<3782, 3782>>, <<3784, 3789>>, <<3864, 3865>>, <<3893, 3893>>,
    <<3895, 3895>>, <<3897, 3897>>, <<3953, 3966>>, <<3968, 3972>>,
    <<3974, 3975>>, <<3981, 3991>>, <<3993, 4028>>, <<4038, 4038>>,
    <<4141, 4144>>, <<4146, 4151>>, <<4153, 4154>>, <<4157, 4158>>,
    <<4184, 4185>>, <<4190, 4192>>, <<4209, 4212>>, <<4226, 4226>>,
    <<4229, 4230>>, <<4237, 4237>>, <<4253, 4253>>, <<4348, 4348>>,
    <<4957, 4959>>, <<5906, 5908>>, <<5938, 5939>>, <<5970, 5971>>,
    <<6002, 6003>>, <<6068, 6069>>, <<6071, 6077>>, <<6086, 6086>>,
    <<6089, 6099>>, <<6103, 6103>>, <<6109, 6109>>, <<6155, 6159>>,
    <<6211, 6211>>, <<6277, 6278>>, <<6313, 6313>>, <<6432, 6434>>,
    <<6439, 6440>>, <<6450, 6450>>, <<6457, 6459>>, <<6679, 6680>>,
    <<6683, 6683>>, <<6742, 6742>>, <<6744, 6750>>, <<6752, 6752>>,
    <<6754, 6754>>, <<6757, 6764>>, <<6771, 6780>>, <<6783, 6783>>,
    <<6823, 6823>>, <<6832, 6862>>, <<6912, 6915>>, <<6964, 6964>>,
    <<6966, 6970>>, <<6972, 6972>>, <<6978, 6978>>, <<7019, 7027>>,
    <<7040, 7041>>, <<7074, 7077>>, <<7080, 7081>>, <<7083, 7085>>,
    <<7142, 7142>>, <<7144, 7145>>, <<7149, 7149>>, <<7151, 7153>>,
    <<7212, 7219>>, <<7222, 7223>>, <<7288, 7293>>, <<7376, 7378>>,
    <<7380, 7392>>, <<7394, 7400>>, <<7405, 7405>>, <<7412, 7412>>,
    <<7416, 7417>>, <<7468, 7530>>, <<7544, 7544>>, <<7579, 7679>>,
    <<8125, 8125>>, <<8127, 8129>>, <<8141, 8143>>, <<8157, 8159>>,
    <<8173, 8175>>, <<8189, 8190>>, <<8203, 8207>>, <<8216, 8217>>,
    <<8228, 8228>>, <<8231, 8231>>, <<8234, 8238>>, <<8288, 8292>>,
    <<8294, 8303>>, <<8305, 8305>>, <<8319, 8319>>, <<8336, 8348>>,
    <<8400, 8432>>, <<11388, 11389>>, <<11503, 11505>>, <<11631, 11631>>,
    <<11647, 11647>>, <<11744, 11775>>, <<11823, 11823>>, <<12293, 12293>>,
    <<12330, 12333>>, <<12337, 12341>>, <<12347, 12347>>, <<12441, 12446>>,
    <<12540, 12542>>, <<40981, 40981>>, <<42232, 42237>>, <<42508, 42508>>,
    <<42607, 42610>>, <<42612, 42621>>, <<42623, 42623>>, <<42652, 42655>>,
    <<42736, 42737>>, <<42752, 42785>>, <<42864, 42864>>, <<42888, 42890>>,
    <<42994, 42996>>, <<43000, 43001>>, <<43010, 43010>>, <<43014, 43014>>,
    <<43019, 43019>>, <<43045, 43046>>, <<43052, 43052>>, <<43204, 43205>>,
    <<43232, 43249>>, <<43263, 43263>>, <<43302, 43309>>, <<43335, 43345>>,
    <<43392, 43394>>, <<43443, 43443>>, <<43446, 43449>>, <<43452, 43453>>,
    <<43471, 43471>>, <<43493, 43494>>, <<43561, 43566>>, <<43569, 43570>>,
    <<43573, 43574>>, <<43587, 43587>>, <<43596, 43596>>, <<43632, 43632>>,
    <<43644, 43644>>, <<43696, 43696>>, <<43698, 43700>>, <<43703, 43704>>,
    <<43710, 43711>>, <<43713, 43713>>, <<43741, 43741>>, <<43756, 43757>>,
    <<43763, 43764>>, <<43766, 43766>>, <<43867, 43871>>, <<43881, 43883>>,
    <<44005, 44005>>, <<44008, 44008>>, <<44013, 44013>>, <<64286, 64286>>,
    <<64434, 64450>>, <<65024, 65039>>, <<65043, 65043>>, <<65056, 65071>>,
    <<65106, 65106>>, <<65109, 65109>>, <<65279, 65279>>, <<65287, 65287>>,
    <<65294, 65294>>, <<65306, 65306>>, <<65342, 65342>>, <<65344, 65344>>,
    <<65392, 65392>>, <<65438, 65439>>, <<65507, 65507>>, <<65529, 65531>>,
    <<66045, 66045>>, <<66272, 66272>>, <<66422, 66426>>, <<67456, 67461>>,
    <<67463, 67504>>, <<67506, 67514>>, <<68097, 68099>>, <<68101, 68102>>,
    <<68108, 68111>>, <<68152, 68154>>, <<68159, 68159>>, <<68325, 68326>>,
    <<68900, 68903>>, <<69291, 69292>>, <<69446, 69456>>, <<69506, 69509>>,
    <<69633, 69633>>, <<69688, 69702>>, <<69744, 69744>>, <<69747, 69748>>,
    <<69759, 69761>>, <<69811, 69814>>, <<69817, 69818>>, <<69821, 69821>>,
    <<69826, 69826>>, <<69837, 69837>>, <<69888, 69890>>, <<69927, 69931>>,
    <<69933, 69940>>, <<70003, 70003>>, <<70016, 70017>>, <<70070, 70078>>,
    <<70089, 70092>>, <<70095, 70095>>, <<70191, 70193>>, <<70196, 70196>>,
    <<70198, 70199>>, <<70206, 70206>>, <<70367, 70367>>, <<70371, 70378>>,
    <<70400, 70401>>, <<70459, 70460>>, <<70464, 70464>>, <<70502, 70508>>,
    <<70512, 70516>>, <<70712, 70719>>, <<70722, 70724>>, <<70726, 70726>>,
    <<70750, 70750>>, <<70835, 70840>>, <<70842, 70842>>, <<70847, 70848>>,
    <<70850, 70851>>, <<71090, 71093>>, <<71100, 71101>>, <<71103, 71104>>,
    <<71132, 71133>>, <<71219, 71226>>, <<71229, 71229>>, <<71231, 71232>>,
    <<71339, 71339>>, <<71341, 71341>>, <<71344, 71349>>, <<71351, 71351>>,
    <<71453, 71455>>, <<71458, 71461>>, <<71463, 71467>>, <<71727, 71735>>,
    <<71737, 71738>>, <<71995, 71996>>, <<71998, 71998>>, <<72003, 72003>>,
    <<72148, 72151>>, <<72154, 72155>>, <<72160, 72160>>, <<72193, 72202>>,
    <<72243, 72248>>, <<72251, 72254>>, <<72263, 72263>>, <<72273, 72278>>,
    <<72281, 72283>>, <<72330, 72342>>, <<72344, 72345>>, <<72752, 72758>>,
    <<72760, 72765>>, <<72767, 72767>>, <<72850, 72871>>, <<72874, 72880>>,
    <<72882, 72883>>, <<72885, 72886>>, <<73009, 73014>>, <<73018, 73018>>,
    <<73020, 73021>>, <<73023, 73029>>, <<73031, 73031>>, <<73104, 73105>>,
    <<73109, 73109>>, <<73111, 73111>>, <<73459, 73460>>, <<78896, 78904>>,
    <<92912, 92916>>, <<92976, 92982>>, <<92992, 92995>>, <<94031, 94031>>,
    <<94095, 94111>>, <<94176, 94177>>, <<94179, 94180>>, <<110576, 110579>>,
    <<110581, 110587>>, <<110589, 110590>>, <<113821, 113822>>,
    <<113824, 113827>>, <<118528, 118573>>, <<118576, 118598>>,
    <<119143, 119145>>, <<119155, 119170>>, <<119173, 119179>>,
    <<119210, 119213>>, <<119362, 119364>>, <<121344, 121398>>,
    <<121403, 121452>>, <<121461, 121461>>, <<121476, 121476>>,
    <<121499, 121503>>, <<121505, 121519>>, <<122880, 122886>>,
    <<122888, 122904>>, <<122907, 122913>>, <<122915, 122916>>,
    <<122918, 122922>>, <<123184, 123197>>, <<123566, 123566>>,
    <<123628, 123631>>, <<125136, 125142>>, <<125252, 125259>>,
    <<127995, 127999>>, <<917505, 917505>>, <<917536, 917631>>,
    <<917760, 917999>>
    >>

\* <<first, last>>: the cased code points that are not skipped
CasedRuns ==
    <<
    <<65, 90>>, <<97, 122>>, <<170, 170>>, <<181, 181>>, <<186, 186>>,
    <<192, 214>>, <<216, 246>>, <<248, 442>>, <<444, 447>>, <<452, 659>>,
    <<661, 687>>, <<880, 883>>, <<886, 887>>, <<891, 893>>, <<895, 895>>,
    <<902, 902>>, <<904, 906>>, <<908, 908>>, <<910, 929>>, <<931, 1013>>,
    <<1015, 1153>>, <<1162, 1327>>, <<1329, 1366>>, <<1376, 1416>>,
    <<4256, 4293>>, <<4295, 4295>>, <<4301, 4301>>, <<4304, 4346>>,
    <<4349, 4351>>, <<5024, 5109>>, <<5112, 5117>>, <<7296, 7304>>,
    <<7312, 7354>>, <<7357, 7359>>, <<7424, 7467>>, <<7531, 7543>>,
    <<7545, 7578>>, <<7680, 7957>>, <<7960, 7965>>, <<7968, 8005>>,
    <<8008, 8013>>, <<8016, 8023>>, <<8025, 8025>>, <<8027, 8027>>,
    <<8029, 8029>>, <<8031, 8061>>, <<8064, 8116>>, <<8118, 8124>>,
    <<8126, 8126>>, <<8130, 8132>>, <<8134, 8140>>, <<8144, 8147>>,
    <<8150, 8155>>, <<8160, 8172>>, <<8178, 8180>>, <<8182, 8188>>,
    <<8450, 8450>>, <<8455, 8455>>, <<8458, 8467>>, <<8469, 8469>>,
    <<8473, 8477>>, <<8484, 8484>>, <<8486, 8486>>, <<8488, 8488>>,
    <<8490, 8493>>, <<8495, 8500>>, <<8505, 8505>>, <<8508, 8511>>,
    <<8517, 8521>>, <<8526, 8526>>, <<8544, 8575>>, <<8579, 8580>>,
    <<9398, 9449>>, <<11264, 11387>>, <<11390, 11492>>, <<11499, 11502>>,
    <<11506, 11507>>, <<11520, 11557>>, <<11559, 11559>>, <<11565, 11565>>,
    <<42560, 42605>>, <<42624, 42651>>, <<42786, 42863>>, <<42865, 42887>>,
    <<42891, 42894>>, <<42896, 42954>>, <<42960, 42961>>, <<42963, 42963>>,
    <<42965, 42969>>, <<42997, 42998>>, <<43002, 43002>>, <<43824, 43866>>,
    <<43872, 43880>>, <<43888, 43967>>, <<64256, 64262>>, <<64275, 64279>>,
    <<65313, 65338>>, <<65345, 65370>>, <<66560, 66639>>, <<66736, 66771>>,
    <<66776, 66811>>, <<66928, 66938>>, <<66940, 66954>>, <<66956, 66962>>,
    <<66964, 66965>>, <<66967, 66977>>, <<66979, 66993>>, <<66995, 67001>>,
    <<67003, 67004>>, <<68736, 68786>>, <<68800, 68850>>, <<71840, 71903>>,
    <<93760, 93823>>, <<119808, 119892>>, <<119894, 119964>>,
    <<119966, 119967>>, <<119970, 119970>>, <<119973, 119974>>,
    <<119977, 119980>>, <<119982, 119993>>, <<119995, 119995>>,
    <<119997, 120003>>, <<120005, 120069>>, <<120071, 120074>>,
    <<120077, 120084>>, <<120086, 120092>>, <<120094, 120121>>,
    <<120123, 120126>>, <<120128, 120132>>, <<120134, 120134>>,
    <<120138, 120144>>, <<120146, 120485>>, <<120488, 120512>>,
    <<120514, 120538>>, <<120540, 120570>>, <<120572, 120596>>,
    <<120598, 120628>>, <<120630, 120654>>, <<120656, 120686>>,
    <<120688, 120712>>, <<120714, 120744>>, <<120746, 120770>>,
    <<120772, 120779>>, <<122624, 122633>>, <<122635, 122654>>,
    <<125184, 125251>>, <<127280, 127305>>, <<127312, 127337>>,
    <<127344, 127369>>
    >>

InRuns(c, table) == \E i \in 1..Len(table) : c >= table[i][1] /\ c <= table[i][2]

IsCaseIgnorable(c) == InRuns(c, CaseIgnorableRuns)
IsCased(c) == InRuns(c, CasedRuns)

\* the lowercase of one code point that maps to one code point
LowerCodePoint(c) ==
    IF c < 128 THEN (IF c >= 65 /\ c <= 90 THEN c + 32 ELSE c)
    ELSE IF \E i \in 1..Len(LowerRuns) :
               /\ c >= LowerRuns[i][1]
               /\ c <= LowerRuns[i][2]
               /\ (c - LowerRuns[i][1]) % LowerRuns[i][3] = 0
    THEN LET i == CHOOSE j \in 1..Len(LowerRuns) :
                     /\ c >= LowerRuns[j][1]
                     /\ c <= LowerRuns[j][2]
                     /\ (c - LowerRuns[j][1]) % LowerRuns[j][3] = 0
         IN  c + LowerRuns[i][4]
    ELSE c

\* capital sigma at s[i] is a final sigma: a cased letter before it, skipping
\* what is ignorable, and none after it
IsFinalSigma(s, i) ==
    LET before == {j \in 1..(i - 1) : ~IsCaseIgnorable(s[j])}
        after == {j \in (i + 1)..Len(s) : ~IsCaseIgnorable(s[j])}
    IN  /\ before # {}
        /\ IsCased(s[CHOOSE j \in before : \A k \in before : k <= j])
        /\ after = {} \/ ~IsCased(s[CHOOSE j \in after : \A k \in after : j <= k])

RECURSIVE LowerFrom(_, _)
LowerFrom(s, i) ==
    IF i > Len(s) THEN <<>>
    ELSE (IF s[i] = 931 THEN (IF IsFinalSigma(s, i) THEN <<962>> ELSE <<963>>)
          ELSE IF s[i] = 304 THEN <<105, 775>>
          ELSE <<LowerCodePoint(s[i])>>)
         \o LowerFrom(s, i + 1)

\* str.lower
Lower(s) == LowerFrom(s, 1)

\* needle in hay
Contains(hay, needle) ==
    \E i \in 1..(Len(hay) - Len(needle) + 1) :
        SubSeq(hay, i, i + Len(needle) - 1) = needle

IsConfidenceKey(k) == Contains(Lower(k), Confidence)

RECURSIVE FindConfidences(_), FindInDict(_, _), FindInList(_)
\* find_confidences (lines 180-189): the values appended to confidences
FindConfidences(data) ==
    IF IsDict(data) THEN FindInDict(data.keys, data.items)
    ELSE IF IsList(data) THEN FindInList(data.items)
    ELSE <<>>

FindInDict(keys, items) ==
    IF keys = <<>> THEN <<>>
    ELSE (IF IsConfidenceKey(keys[1]) THEN <<items[1]>> ELSE FindConfidences(items[1]))
         \o FindInDict(Tail(keys), Tail(items))

FindInList(items) ==
    IF items = <<>> THEN <<>>
    ELSE FindConfidences(items[1]) \o FindInList(Tail(items))

\* line 178: the guard in front of the confidence analysis
HasTopLevelConfidenceKey(json_data) ==
    \E i \in 1..Len(json_data.keys) : IsConfidenceKey(json_data.keys[i])

\* a finite number in hundredths: n for the number n/100, 100 for True
Hundredths(v) == IF v.t = "bool" THEN 100 * v.n ELSE IF v.t = "num" THEN v.n ELSE 0

RECURSIVE SumOf(_)
\* the exact sum of finite numbers, in hundredths
SumOf(vs) == IF vs = <<>> THEN 0 ELSE Hundredths(vs[1]) + SumOf(Tail(vs))

(***************************************************************************)
(* avg_conf = sum(confidences) / len(confidences)  (line 194) in the       *)
(* arithmetic of the interpreter: binary64, every operation rounded to the *)
(* nearest value, ties to the even one.  A float is [cls, neg, m, e]: for  *)
(* cls = "fin" its value is m * 2^e with m a sequence of 53 bits, first    *)
(* bit 1, most significant first, or zero with m = <<>>; "inf" and "nan"   *)
(* are the infinities and not-a-number.  A sum of finitely many numbers of *)
(* the sizes here stays far from the largest and the smallest float.       *)
(***************************************************************************)
Mantissa == 53
\* binary places kept behind the point when a quotient is formed
Places == 64

FloatZero == [cls |-> "fin", neg |-> FALSE, m |-> <<>>, e |-> 0]
FloatNan == [cls |-> "nan", neg |-> FALSE, m |-> <<>>, e |-> 0]
FloatInf(neg) == [cls |-> "inf", neg |-> neg, m |-> <<>>, e |-> 0]

Zeros(k) == [i \in 1..k |-> 0]

RECURSIVE Bits(_)
\* the natural number n in binary
Bits(n) == IF n = 0 THEN <<>> ELSE Append(Bits(n \div 2), n % 2)

\* without leading zeros
Strip(bits) ==
    IF \A i \in 1..Len(bits) : bits[i] = 0 THEN <<>>
    ELSE LET first == CHOOSE i \in 1..Len(bits) :
                          bits[i] = 1 /\ \A j \in 1..(i - 1) : bits[j] = 0
         IN  SubSeq(bits, first, Len(bits))

RECURSIVE DivBits(_, _, _)
\* long division by the small number d of the remainder r followed by bits:
\* the first half of the bits, then the second half
DivBits(bits, d, r) ==
    IF bits = <<>> THEN [q |-> <<>>, r |-> r]
    ELSE IF Len(bits) = 1
    THEN LET t == 2 * r + bits[1]
         IN  IF t >= d THEN [q |-> <<1>>, r |-> t - d] ELSE [q |-> <<0>>, r |-> t]
    ELSE LET h == Len(bits) \div 2
             left == DivBits(SubSeq(bits, 1, h), d, r)
             right == DivBits(SubSeq(bits, h + 1, Len(bits)), d, left.r)
         IN  [q |-> left.q \o right.q, r |-> right.r]

\* a + b for bit strings of one length.  The carry into place i comes from
\* the nearest place behind it where the two bits are equal: 1 if they are
\* both 1, and 0 if there is no such place
Sum(a, b) ==
    LET len == Len(a)
        CarryInto(i) ==
            IF \A j \in (i + 1)..len : a[j] # b[j] THEN 0
            ELSE a[CHOOSE j \in (i + 1)..len :
                       a[j] = b[j] /\ \A k \in (i + 1)..(j - 1) : a[k] # b[k]]
        s == [i \in 1..len |-> (a[i] + b[i] + CarryInto(i)) % 2]
    IN  IF CarryInto(0) = 1 THEN <<1>> \o s ELSE s

\* a - b for bit strings of one length with a >= b.  Place i borrows when at
\* the nearest place behind it where the two bits differ a has the 0
Difference(a, b) ==
    LET len == Len(a)
        BorrowFrom(i) ==
            IF \A j \in (i + 1)..len : a[j] = b[j] THEN 0
            ELSE b[CHOOSE j \in (i + 1)..len :
                       a[j] # b[j] /\ \A k \in (i + 1)..(j - 1) : a[k] = b[k]]
    IN  [i \in 1..len |-> (2 + a[i] - b[i] - BorrowFrom(i)) % 2]

\* a < b for bit strings of one length
LessBits(a, b) ==
    \E i \in 1..Len(a) :
        /\ a[i] < b[i]
        /\ \A j \in 1..(i - 1) : a[j] = b[j]

\* the float nearest to bits * 2^e, or to a little more when sticky; bits has
\* no leading zero
RoundBits(neg, bits, e, sticky) ==
    IF bits = <<>> THEN FloatZero
    ELSE IF Len(bits) <= Mantissa
    THEN [cls |-> "fin", neg |-> neg, m |-> bits \o Zeros(Mantissa - Len(bits)),
          e |-> e - (Mantissa - Len(bits))]
    ELSE LET top == SubSeq(bits, 1, Mantissa)
             half == bits[Mantissa + 1] = 1
             more == sticky \/ \E i \in (Mantissa + 2)..Len(bits) : bits[i] = 1
             up == half /\ (more \/ top[Mantissa] = 1)
             ee == e + (Len(bits) - Mantissa)
             next == Sum(top, Zeros(Mantissa - 1) \o <<1>>)
         IN  IF ~up THEN [cls |-> "fin", neg |-> neg, m |-> top, e |-> ee]
             ELSE IF Len(next) = Mantissa
             THEN [cls |-> "fin", neg |-> neg, m |-> next, e |-> ee]
             ELSE [cls |-> "fin", neg |-> neg, m |-> SubSeq(next, 1, Mantissa), e |-> ee + 1]

\* the float of a value: the number n/100 as json.loads reads its decimal
\* text, 1.0 and 0.0 for True and False in a sum
FloatOf(v) ==
    IF v.t = "nan" THEN FloatNan
    ELSE IF v.t = "inf" THEN FloatInf(v.n < 0)
    ELSE IF v.t = "bool" THEN RoundBits(FALSE, Bits(v.n), 0, FALSE)
    ELSE LET a == IF v.n < 0 THEN 0 - v.n ELSE v.n
             d == DivBits(Bits(a) \o Zeros(Places), 100, 0)
         IN  RoundBits(v.n < 0, Strip(d.q), 0 - Places, d.r # 0)

\* x + y
FloatAdd(x, y) ==
    IF x.cls = "nan" \/ y.cls = "nan" THEN FloatNan
    ELSE IF x.cls = "inf"
    THEN (IF y.cls = "inf" /\ y.neg # x.neg THEN FloatNan ELSE x)
    ELSE IF y.cls = "inf" THEN y
    ELSE IF x.m = <<>> THEN y
    ELSE IF y.m = <<>> THEN x
    ELSE LET e == IF x.e < y.e THEN x.e ELSE y.e
             xs == x.m \o Zeros(x.e - e)
             ys == y.m \o Zeros(y.e - e)
             len == IF Len(xs) > Len(ys) THEN Len(xs) ELSE Len(ys)
             a == Zeros(len - Len(xs)) \o xs
             b == Zeros(len - Len(ys)) \o ys
         IN  IF x.neg = y.neg THEN RoundBits(x.neg, Sum(a, b), e, FALSE)
             ELSE IF LessBits(a, b)
             THEN RoundBits(y.neg, Strip(Difference(b, a)), e, FALSE)
             ELSE RoundBits(x.neg, Strip(Difference(a, b)), e, FALSE)

\* x / count for count = len(confidences) > 0
FloatDiv(x, count) ==
    IF x.cls # "fin" \/ x.m = <<>> THEN x
    ELSE LET d == DivBits(x.m \o Zeros(Places), count, 0)
         IN  RoundBits(x.neg, Strip(d.q), x.e - Places, d.r # 0)

RECURSIVE FloatSum(_, _)
\* sum(confidences): from 0, left to right
FloatSum(vs, acc) ==
    IF vs = <<>> THEN acc ELSE FloatSum(Tail(vs), FloatAdd(acc, FloatOf(vs[1])))

\* line 194
AvgConf(confidences) == FloatDiv(FloatSum(confidences, FloatZero), Len(confidences))

\* 0.0 <= x <= 1.0: False for not-a-number
InUnitRange(x) ==
    /\ x.cls = "fin"
    /\ \/ x.m = <<>>
       \/ /\ ~x.neg
          /\ \/ x.e + Mantissa <= 0
             \/ x.e = 1 - Mantissa /\ x.m = <<1>> \o Zeros(Mantissa - 1)

\* The tolerance 1e-9 as a float, 4835703278458517 * 2^-82: its 53 bits
ToleranceBits ==
    <<
      1, 0, 0, 0, 1, 0, 0, 1, 0, 1, 1, 1, 0, 0, 0, 0, 0, 1, 0, 1, 1, 1,
      1, 1, 0, 1, 0, 0, 0, 0, 0, 1, 0, 0, 1, 1, 0, 1, 1, 0, 1, 0, 1, 1,
      0, 1, 0, 0, 1, 0, 1, 0, 1
    >>
ToleranceExponent == -82
\* the most units in the last place by which a float from 1.0 up is within
\* the tolerance of 1.0: 1e-9 * 2^52, rounded down
ToleranceUnits == 4503599

\* math.isclose(x, 0.0) or math.isclose(x, 1.0), with the tolerance as
\* rel_tol and as abs_tol, for an x outside [0.0, 1.0]
NearUnitRange(x) ==
    /\ x.cls = "fin"
    /\ x.m # <<>>
    /\ IF x.neg
       THEN \/ x.e < ToleranceExponent
            \/ x.e = ToleranceExponent /\ ~LessBits(ToleranceBits, x.m)
       ELSE /\ x.e = 1 - Mantissa
            /\ LET units == Bits(ToleranceUnits)
                   limit == Zeros(Mantissa - 1 - Len(units)) \o units
               IN  ~LessBits(limit, SubSeq(x.m, 2, Mantissa))

\* st.progress (line 196) takes a float in [0.0, 1.0].  The library is not
\* part of the repository and no version of it is named: one that compares
\* exactly refuses every other float, a tolerant one also takes a float
\* within the tolerance of 0.0 or 1.0
ProgressAccepts(avg_conf, tolerant) ==
    InUnitRange(avg_conf) \/ (tolerant /\ NearUnitRange(avg_conf))

(***************************************************************************)
(* The page.  errors is the sequence of st.error messages, each with the   *)
(* value formatted into it; uncaught is an exception that left the script. *)
(***************************************************************************)
Message(msg, arg) == [msg |-> msg, arg |-> arg]

NotShown == [shown |-> FALSE, val |-> NullV]
NoText == [shown |-> FALSE, text |-> <<>>]
NoMetric == [shown |-> FALSE, n |-> 0]
\* the average on the page: "nan" or "inf" when avg_conf is that; else the
\* quotient sum / (100 * count), which the script shows as a whole
\* percentage
NoAverage == [shown |-> FALSE, cls |-> "fin", neg |-> FALSE, sum |-> 0, count |-> 0]

EmptyUi ==
    [errors |-> <<>>, uncaught |-> FALSE, success |-> FALSE, json |-> NotShown,
     fields |-> NoMetric, average |-> NoAverage, progress |-> FALSE,
     download |-> NoText, code |-> NoText]

ShowError(u, msg, arg) == [u EXCEPT !.errors = Append(@, Message(msg, arg))]

\* line 212: the outer except
ProcessingFailed(u, exception) == ShowError(u, "Processing failed", exception)

\* lines 199-204
OfferDownload(u, json_data) ==
    [u EXCEPT !.download = [shown |-> TRUE, text |-> JsonDumps(json_data)]]

\* lines 193-196, then the download button
ShowAverage(u, json_data, confidences, tolerant) ==
    IF confidences = <<>> THEN OfferDownload(u, json_data)
    ELSE IF \E i \in 1..Len(confidences) : ~IsNumber(confidences[i])
    THEN ProcessingFailed(u, "TypeError")
    ELSE LET avg_conf == AvgConf(confidences)
             exact == avg_conf.cls = "fin"
             shown == [u EXCEPT !.average =
                          [shown |-> TRUE, cls |-> avg_conf.cls,
                           neg |-> IF exact THEN FALSE ELSE avg_conf.neg,
                           sum |-> IF exact THEN SumOf(confidences) ELSE 0,
                           count |-> IF exact THEN Len(confidences) ELSE 0]]
         IN  IF ProgressAccepts(avg_conf, tolerant)
             THEN OfferDownload([shown EXCEPT !.progress = TRUE], json_data)
             ELSE ProcessingFailed(shown, "StreamlitAPIException")

\* lines 177-196
ConfidenceAnalysis(u, json_data, tolerant) ==
    IF ~IsDict(json_data) THEN ProcessingFailed(u, "AttributeError")
    ELSE IF HasTopLevelConfidenceKey(json_data)
    THEN ShowAverage(u, json_data, FindConfidences(json_data), tolerant)
    ELSE OfferDownload(u, json_data)

\* lines 173-175
BasicStats(u, json_data) ==
    IF IsDict(json_data)
    THEN [u EXCEPT !.fields = [shown |-> TRUE, n |-> Len(json_data.keys)]]
    ELSE u

\* lines 159-212: what the handler shows for the reply text
InterpretReply(u, text, tolerant) ==
    LET parsed == JsonLoads(text)
    IN  IF parsed.ok
        THEN LET shown == [u EXCEPT !.success = TRUE,
                                    !.json = [shown |-> TRUE, val |-> parsed.val]]
             IN  ConfidenceAnalysis(BasicStats(shown, parsed.val), parsed.val, tolerant)
        ELSE IF parsed.err = "JSONDecodeError"
        THEN [ShowError(u, "The AI returned invalid JSON. Below is the raw Response", "")
                 EXCEPT !.code = [shown |-> TRUE, text |-> text]]
        ELSE ProcessingFailed(u, parsed.err)

\* extract_text with the final else branch reading the file as text
ExtractTextAnyAsText(file) ==
    IF file.type \in {TypePdf, TypeDocx} THEN
        IF file.wellformed
        THEN [ret |-> Some(Join(Newline, file.units)), errors |-> <<>>, raised |-> FALSE]
        ELSE [ret |-> None, errors |-> <<Message("parse error", file.type)>>, raised |-> FALSE]
    ELSE LET d == Utf8Decode(file.bytes)
         IN  IF d.ok THEN [ret |-> Some(d.s), errors |-> <<>>, raised |-> FALSE]
             ELSE [ret |-> None, errors |-> <<>>, raised |-> TRUE]

(***************************************************************************)
(* extract_text (lines 18-41): [ret, errors, raised].                      *)
(***************************************************************************)
ExtractText(file) ==
    IF file.type = TypePdf THEN
        IF file.wellformed
        THEN [ret |-> Some(Join(Newline, file.units)), errors |-> <<>>, raised |-> FALSE]
        ELSE [ret |-> None, errors |-> <<Message("PDF error", "parse")>>, raised |-> FALSE]
    ELSE IF file.type = TypeDocx THEN
        IF file.wellformed
        THEN [ret |-> Some(Join(Newline, file.units)), errors |-> <<>>, raised |-> FALSE]
        ELSE [ret |-> None, errors |-> <<Message("Word error", "parse")>>, raised |-> FALSE]
    ELSE IF file.type = TypeText THEN
        LET d == Utf8Decode(file.bytes)
        IN  IF d.ok THEN [ret |-> Some(d.s), errors |-> <<>>, raised |-> FALSE]
            ELSE [ret |-> None, errors |-> <<>>, raised |-> TRUE]
    ELSE [ret |-> None,
          errors |-> <<Message("Unsupported file type", file.type)>>,
          raised |-> FALSE]

(***************************************************************************)
(* Widgets.                                                                *)
(***************************************************************************)
Automatic == "Automatic (AI determines structure)"
SchemaGuided == "Schema-Guided (Provide JSON template)"

ApiKeys == {"", "sk-1", "sk-2"}
PastedTexts == {<<>>, <<66>>}
SchemaTexts == {<<>>, <<123, 125>>}

NoPrompt == [built |-> FALSE, template |-> "", schema |-> <<>>, document |-> <<>>]

\* the script's first run: every widget at its default, the button not pressed
Init ==
    /\ api_key = ""
    /\ uploaded_file = NoFile
    /\ text_input = <<>>
    /\ extraction_mode = Automatic
    /\ schema = None
    /\ pc = "idle"
    /\ input_text = Some(<<>>)
    /\ prompt = NoPrompt
    /\ openai_api_key = ""
    /\ calls = <<>>
    /\ extractions = 0
    /\ result = <<>>
    /\ ui = EmptyUi

(***************************************************************************)
(* Widget interaction.  Changing a widget reruns the script with the       *)
(* button not pressed: the handler body is skipped and the output of the   *)
(* previous run leaves the page.  openai.api_key belongs to the process    *)
(* and survives.                                                           *)
(*                                                                         *)
(* An interaction during a run makes the runtime abandon that run at its   *)
(* next st.* call and start the new one.  Up to st.spinner (line 113) that *)
(* is before the completion call; from there on the next st.* call comes   *)
(* after the reply (line 163, 207 or 212), so the call is still made and   *)
(* its reply is dropped: an interaction that arrives between lines 113 and *)
(* 149 takes effect where one that arrives during the wait does.           *)
(***************************************************************************)
CanInteract ==
    pc \in {"idle", "done", "credential", "input", "prompt", "awaiting", "interpret"}

FreshRun(position) ==
    /\ pc' = position
    /\ input_text' = Some(<<>>)
    /\ prompt' = NoPrompt
    /\ calls' = <<>>
    /\ extractions' = 0
    /\ result' = <<>>
    /\ ui' = EmptyUi
    /\ UNCHANGED openai_api_key

\* lines 48-49
EditApiKey ==
    /\ CanInteract
    /\ \E k \in ApiKeys \ {api_key} : api_key' = k
    /\ FreshRun("idle")
    /\ UNCHANGED <<uploaded_file, text_input, extraction_mode, schema>>

\* lines 72-76
UploadFile ==
    /\ CanInteract
    /\ \E f \in (Files \cup {NoFile}) \ {uploaded_file} : uploaded_file' = f
    /\ FreshRun("idle")
    /\ UNCHANGED <<api_key, text_input, extraction_mode, schema>>

\* line 78
EditText ==
    /\ CanInteract
    /\ \E t \in PastedTexts \ {text_input} : text_input' = t
    /\ FreshRun("idle")
    /\ UNCHANGED <<api_key, uploaded_file, extraction_mode, schema>>

\* lines 59-64 and 81-93: the schema box appears, empty, with the
\* schema-guided mode and goes with it
SelectMode ==
    /\ CanInteract
    /\ \E m \in {Automatic, SchemaGuided} \ {extraction_mode} :
          /\ extraction_mode' = m
          /\ schema' = IF m = SchemaGuided THEN Some(<<>>) ELSE None
    /\ FreshRun("idle")
    /\ UNCHANGED <<api_key, uploaded_file, text_input>>

\* lines 83-93
EditSchema ==
    /\ CanInteract
    /\ extraction_mode = SchemaGuided
    /\ \E t \in {Some(x) : x \in SchemaTexts} \ {schema} : schema' = t
    /\ FreshRun("idle")
    /\ UNCHANGED <<api_key, uploaded_file, text_input, extraction_mode>>

\* lines 51-56, 68 and 69: the model selectbox, the creativity slider or the
\* max-tokens box is changed.  Their values go into the completion call
\* (lines 150-153) as they are and into nothing else, and they are not part
\* of the state; the change reruns the script with the button not pressed
EditSettings ==
    /\ CanInteract
    /\ FreshRun("idle")
    /\ UNCHANGED <<api_key, uploaded_file, text_input, extraction_mode, schema>>

\* lines 199-204: the download button on the page of a finished run is
\* pressed; the browser saves the text and the script reruns with the
\* "Process Document" button not pressed
PressDownload ==
    /\ pc = "done"
    /\ ui.download.shown
    /\ FreshRun("idle")
    /\ UNCHANGED <<api_key, uploaded_file, text_input, extraction_mode, schema>>

\* line 96: the button is pressed and the script reruns into the handler
Trigger ==
    /\ CanInteract
    /\ FreshRun("credential")
    /\ UNCHANGED <<api_key, uploaded_file, text_input, extraction_mode, schema>>

\* the credential check without its st.stop()
CheckCredentialNoStop ==
    /\ pc = "credential"
    /\ ui' = IF api_key = "" THEN ShowError(ui, "Please enter your OpenAI API key", "") ELSE ui
    /\ pc' = "input"
    /\ UNCHANGED <<api_key, uploaded_file, text_input, extraction_mode, schema,
                   input_text, prompt, openai_api_key, calls, extractions, result>>

\* lines 97-99
CheckCredential ==
    /\ pc = "credential"
    /\ IF api_key = ""
       THEN /\ ui' = ShowError(ui, "Please enter your OpenAI API key", "")
            /\ pc' = "done"
       ELSE /\ ui' = ui
            /\ pc' = "input"
    /\ UNCHANGED <<api_key, uploaded_file, text_input, extraction_mode, schema,
                   input_text, prompt, openai_api_key, calls, extractions, result>>

\* input acquisition that looks at the pasted text first
AcquireInputPastedFirst ==
    /\ pc = "input"
    /\ IF text_input # <<>> THEN
          /\ input_text' = Some(text_input)
          /\ pc' = "prompt"
          /\ UNCHANGED <<ui, extractions>>
       ELSE IF uploaded_file.present THEN
          LET e == ExtractText(uploaded_file)
          IN  /\ extractions' = extractions + 1
              /\ IF e.raised
                 THEN /\ ui' = [ui EXCEPT !.uncaught = TRUE]
                      /\ input_text' = input_text
                      /\ pc' = "done"
                 ELSE /\ ui' = [ui EXCEPT !.errors = @ \o e.errors]
                      /\ input_text' = e.ret
                      /\ pc' = IF Falsy(e.ret) THEN "done" ELSE "prompt"
       ELSE
          /\ ui' = ShowError(ui, "Please upload a file or paste text", "")
          /\ pc' = "done"
          /\ UNCHANGED <<input_text, extractions>>
    /\ UNCHANGED <<api_key, uploaded_file, text_input, extraction_mode, schema,
                   prompt, openai_api_key, calls, result>>

\* lines 101-111
AcquireInput ==
    /\ pc = "input"
    /\ IF uploaded_file.present THEN
          LET e == ExtractText(uploaded_file)
          IN  /\ extractions' = extractions + 1
              /\ IF e.raised
                 THEN /\ ui' = [ui EXCEPT !.uncaught = TRUE]
                      /\ input_text' = input_text
                      /\ pc' = "done"
                 ELSE /\ ui' = [ui EXCEPT !.errors = @ \o e.errors]
                      /\ input_text' = e.ret
                      /\ pc' = IF Falsy(e.ret) THEN "done" ELSE "prompt"
       ELSE IF text_input # <<>> THEN
          /\ input_text' = Some(text_input)
          /\ pc' = "prompt"
          /\ UNCHANGED <<ui, extractions>>
       ELSE
          /\ ui' = ShowError(ui, "Please upload a file or paste text", "")
          /\ pc' = "done"
          /\ UNCHANGED <<input_text, extractions>>
    /\ UNCHANGED <<api_key, uploaded_file, text_input, extraction_mode, schema,
                   prompt, openai_api_key, calls, result>>

\* lines 116-145: the f-strings
BuildPromptText(mode, sch, text) ==
    IF mode = SchemaGuided
    THEN [built |-> TRUE, template |-> "schema", schema |-> sch.s, document |-> text.s]
    ELSE [built |-> TRUE, template |-> "automatic", schema |-> <<>>, document |-> text.s]

BuildPrompt ==
    /\ pc = "prompt"
    /\ prompt' = BuildPromptText(extraction_mode, schema, input_text)
    /\ pc' = "assign"
    /\ UNCHANGED <<api_key, uploaded_file, text_input, extraction_mode, schema,
                   input_text, openai_api_key, calls, extractions, result, ui>>

\* line 148
AssignKey ==
    /\ pc = "assign"
    /\ openai_api_key' = api_key
    /\ pc' = "call"
    /\ UNCHANGED <<api_key, uploaded_file, text_input, extraction_mode, schema,
                   input_text, prompt, calls, extractions, result, ui>>

\* line 148 run by the script thread of another browser session: every
\* session of the process shares openai.api_key, and that run has its own,
\* non-empty, credential
OtherSessionAssignsKey ==
    /\ \E k \in (ApiKeys \ {""}) \ {openai_api_key} : openai_api_key' = k
    /\ UNCHANGED <<api_key, uploaded_file, text_input, extraction_mode, schema, pc,
                   input_text, prompt, calls, extractions, result, ui>>

(***************************************************************************)
(* Replies of the completion API.                                          *)
(***************************************************************************)
\* "name", "name_confidence", "age_confidence", "\u00c9Confidence"
KeyName == <<110, 97, 109, 101>>
KeyNameConfidence == KeyName \o <<95>> \o Confidence
KeyAgeConfidence == <<97, 103, 101, 95>> \o Confidence
KeyCapital == <<201, 67>> \o Tail(Confidence)
Keys == <<KeyName, KeyNameConfidence, KeyAgeConfidence, KeyCapital>>

\* 0.7, 0.9, 1.5, "Alice", null, true, NaN
Leaves ==
    {NumV(70), NumV(90), NumV(150), StrV(<<65, 108, 105, 99, 101>>), NullV,
     BoolV(TRUE), NanV}

\* the key sequences for the objects of a reply: keys in the order of Keys
KeySeqs ==
    UNION {{[i \in 1..n |-> Keys[f[i]]] :
              f \in {g \in [1..n -> 1..Len(Keys)] : \A i \in 1..(n - 1) : g[i] < g[i + 1]}} :
           n \in 0..Len(Keys)}

RECURSIVE ValuesOfSize(_), Forests(_)
\* the JSON values of exactly n nodes
ValuesOfSize(n) ==
    IF n = 0 THEN {}
    ELSE LET forests == Forests(n - 1)
             keyed == {p \in KeySeqs \X forests : Len(p[1]) = Len(p[2])}
         IN  (IF n = 1 THEN Leaves ELSE {})
             \cup {ArrV(f) : f \in forests}
             \cup {ObjV(p[1], p[2]) : p \in keyed}

\* the sequences of JSON values of n nodes in all
Forests(n) ==
    IF n = 0 THEN {<<>>}
    ELSE LET split == {p \in (1..n) \X (0..(n - 1)) : p[1] + p[2] = n}
         IN  UNION {{<<v>> \o f : v \in ValuesOfSize(p[1]), f \in Forests(p[2])} : p \in split}

ValuesUpTo(n) == UNION {ValuesOfSize(k) : k \in 1..n}

\* a value as the API writes it ("json"), the same after "Sure, here's your
\* JSON:" ("prose"), and the same cut short before its last token ("cut")
ReplyForms == {"json", "prose", "cut"}

Reply(v, form) ==
    LET text == JsonDumps(v)
    IN  IF form = "json" THEN text
        ELSE IF form = "prose" THEN <<Tok("prose")>> \o text
        ELSE SubSeq(text, 1, Len(text) - 1)

\* {"name": 0.7, "name": 0.9}: a key written twice
TwiceName ==
    <<Tok("{"), StrTok(KeyName), Tok(":"), NumTok(70), Tok(","),
      StrTok(KeyName), Tok(":"), NumTok(90), Tok("}")>>

\* {"name": "Alice", "name_confidence": 0.9, "age_confidence": 0.7}
AliceValue ==
    ObjV(<<KeyName, KeyNameConfidence, KeyAgeConfidence>>,
         <<StrV(<<65, 108, 105, 99, 101>>), NumV(90), NumV(70)>>)

\* {"\u00c9Confidence": 0.9, "name": [{"age_confidence": 0.7}]}
NestedValue ==
    ObjV(<<KeyCapital, KeyName>>,
         <<NumV(90), ArrV(<<ObjV(<<KeyAgeConfidence>>, <<NumV(70)>>)>>)>>)

\* {"name_confidence": 0.04, "age_confidence": 2.74, "\u00c9Confidence": 0.22}:
\* the numbers add up to 3, their float sum is the next float above 3
BoundaryValue ==
    ObjV(<<KeyNameConfidence, KeyAgeConfidence, KeyCapital>>,
         <<NumV(4), NumV(274), NumV(22)>>)

\* values besides those of at most MaxNodes nodes: the remaining literals,
\* alone and under confidence keys
FurtherValues ==
    {AliceValue, NestedValue, BoundaryValue, BoolV(FALSE), InfV(1), InfV(-1),
     ObjV(<<KeyCapital>>, <<BoolV(FALSE)>>),
     ObjV(<<KeyCapital>>, <<InfV(1)>>),
     ObjV(<<KeyNameConfidence, KeyAgeConfidence>>, <<InfV(1), InfV(-1)>>)}

ReplyValues == ValuesUpTo(MaxNodes) \cup FurtherValues

\* "[[[[...": arrays opened beyond the recursion limit
DeepText == <<Tok("deep")>>

ReplyTexts ==
    {Reply(v, form) : v \in ReplyValues, form \in ReplyForms}
    \cup {TwiceName, DeepText}

\* the replies the whole pipeline is run with: the scalars, the empty
\* containers and one object with confidences, in every form
PipelineValues == Leaves \cup {ArrV(<<>>), ObjV(<<>>, <<>>), AliceValue}

PipelineReplies == {Reply(v, form) : v \in PipelineValues, form \in ReplyForms}

\* line 149: openai.ChatCompletion.create reads the process-wide key when
\* it is called and sends the request
IssueCall ==
    /\ pc = "call"
    /\ calls' = Append(calls, [credential |-> openai_api_key, prompt |-> prompt])
    /\ pc' = "awaiting"
    /\ UNCHANGED <<api_key, uploaded_file, text_input, extraction_mode, schema,
                   input_text, prompt, openai_api_key, extractions, result, ui>>

\* the end of the wait with a second request sent after a failure
ReceiveReplyRetry ==
    /\ pc = "awaiting"
    /\ \/ /\ calls' = Append(calls, [credential |-> openai_api_key, prompt |-> prompt])
          /\ ui' = ProcessingFailed(ui, "CompletionError")
          /\ pc' = "done"
          /\ result' = result
       \/ /\ \E text \in PipelineReplies : result' = text
          /\ pc' = "interpret"
          /\ UNCHANGED <<ui, calls>>
    /\ UNCHANGED <<api_key, uploaded_file, text_input, extraction_mode, schema,
                   input_text, prompt, openai_api_key, extractions>>

\* lines 149-157 and 211-212: the wait ends; create raises, or returns the
\* reply text
ReceiveReply ==
    /\ pc = "awaiting"
    /\ \/ /\ ui' = ProcessingFailed(ui, "CompletionError")
          /\ pc' = "done"
          /\ result' = result
       \/ /\ \E text \in PipelineReplies : result' = text
          /\ pc' = "interpret"
          /\ ui' = ui
    /\ UNCHANGED <<api_key, uploaded_file, text_input, extraction_mode, schema,
                   input_text, prompt, openai_api_key, calls, extractions>>

\* lines 159-212, with an st.progress that compares exactly or with the
\* tolerance
Interpret ==
    /\ pc = "interpret"
    /\ \E tolerant \in BOOLEAN : ui' = InterpretReply(ui, result, tolerant)
    /\ pc' = "done"
    /\ UNCHANGED <<api_key, uploaded_file, text_input, extraction_mode, schema,
                   input_text, prompt, openai_api_key, calls, extractions, result>>

Next ==
    \/ EditApiKey
    \/ UploadFile
    \/ EditText
    \/ SelectMode
    \/ EditSchema
    \/ EditSettings
    \/ PressDownload
    \/ Trigger
    \/ CheckCredential
    \/ AcquireInput
    \/ BuildPrompt
    \/ AssignKey
    \/ OtherSessionAssignsKey
    \/ IssueCall
    \/ ReceiveReply
    \/ Interpret

Spec == Init /\ [][Next]_vars

(***************************************************************************)
(* The interpretation of a reply on its own: a run with pasted text that   *)
(* has reached line 157 with any reply of at most MaxNodes nodes.          *)
(***************************************************************************)
InitInterpret ==
    /\ api_key = "sk-1"
    /\ uploaded_file = NoFile
    /\ text_input = <<66>>
    /\ extraction_mode = Automatic
    /\ schema = None
    /\ pc = "interpret"
    /\ input_text = Some(<<66>>)
    /\ prompt = BuildPromptText(Automatic, None, Some(<<66>>))
    /\ openai_api_key = "sk-1"
    /\ calls = <<[credential |-> "sk-1", prompt |-> prompt]>>
    /\ extractions = 0
    /\ result \in ReplyTexts
    /\ ui = EmptyUi

NextInterpret == Interpret

SpecInterpret == InitInterpret /\ [][NextInterpret]_vars

(***************************************************************************)
(* Vocabulary of the claims.                                               *)
(***************************************************************************)
MissingCredential == Message("Please enter your OpenAI API key", "")
InvalidJsonResponse ==
    Message("The AI returned invalid JSON. Below is the raw Response", "")

\* the structured display, a statistic or the download artifact is on the page
StructuredShown ==
    \/ ui.success
    \/ ui.json.shown
    \/ ui.fields.shown
    \/ ui.average.shown
    \/ ui.progress
    \/ ui.download.shown

\* "Processing failed: ..." is on the page
ProcessingFailedShown ==
    \E i \in 1..Len(ui.errors) : ui.errors[i].msg = "Processing failed"

\* the terminal outcomes of a run
Interpreted == ui.json.shown /\ ui.download.shown /\ ~ProcessingFailedShown
InterpretedFallback == ui.code.shown /\ ~StructuredShown
\* an error other than the invalid-JSON notice is on the page; an exception
\* that leaves the script is put on the page by the framework
Failed ==
    \/ \E i \in 1..Len(ui.errors) : ui.errors[i] # InvalidJsonResponse
    \/ ui.uncaught

\* NaN, Infinity and -Infinity are no JSON
StandardJson(text) ==
    \A i \in 1..Len(text) : text[i].k \notin {"NaN", "Infinity", "-Infinity"}

\* the texts that are JSON: what json.dumps writes for a value with no
\* not-a-number and no infinity in it, and the object with a key written
\* twice
JsonTexts ==
    {text \in {JsonDumps(v) : v \in ReplyValues} : StandardJson(text)}
    \cup {TwiceName}

RunStarted == pc # "idle"

----------------------------------------------------------------------------
\* C1: in a run whose credential is empty, whatever file or pasted text is
\* there, no text is extracted and no completion call is made, and the run
\* ends showing the missing-credential error and nothing else.
C1_MissingCredentialShortCircuits ==
    (RunStarted /\ api_key = "") =>
        /\ extractions = 0
        /\ calls = <<>>
        /\ ~prompt.built
        /\ pc \in {"credential", "done"}
        /\ pc = "done" => ui = ShowError(EmptyUi, MissingCredential.msg, "")

\* a run with no credential, a valid text file and pasted text has ended
C1_Witness ==
    /\ pc = "done"
    /\ api_key = ""
    /\ uploaded_file.present
    /\ uploaded_file.type = TypeText
    /\ ~Falsy(ExtractText(uploaded_file).ret)
    /\ text_input # <<>>
    /\ ui.errors = <<MissingCredential>>

----------------------------------------------------------------------------
\* C2: a reply that is not JSON ends the run in the fallback outcome, with
\* exactly the reply text shown and nothing structured on the page; whenever
\* something structured is on the page the reply was JSON.
C2_InvalidJsonFallsBack ==
    pc = "done" =>
        /\ result \notin JsonTexts =>
              /\ InterpretedFallback
              /\ ui.code = [shown |-> TRUE, text |-> result]
              /\ ui.errors = <<InvalidJsonResponse>>
              /\ ~ui.uncaught
        /\ StructuredShown => result \in JsonTexts

----------------------------------------------------------------------------
\* C3: a reply that is JSON, whatever its top-level value, ends the run in
\* the Interpreted outcome and never in Failed, and the field count is shown
\* exactly when the top-level value is an object.
C3_ValidJsonIsInterpreted ==
    (pc = "done" /\ result \in JsonTexts) =>
        /\ Interpreted
        /\ ~Failed
        /\ ui.fields.shown <=> IsDict(JsonLoads(result).val)

----------------------------------------------------------------------------
RECURSIVE ClaimedConfidences(_), ClaimedInDict(_, _), ClaimedInList(_)
\* the numbers anywhere in the tree whose immediate key contains "confidence"
ClaimedConfidences(data) ==
    IF IsDict(data) THEN ClaimedInDict(data.keys, data.items)
    ELSE IF IsList(data) THEN ClaimedInList(data.items)
    ELSE <<>>

ClaimedInDict(keys, items) ==
    IF keys = <<>> THEN <<>>
    ELSE (IF IsConfidenceKey(keys[1]) /\ IsNumber(items[1]) THEN <<items[1]>> ELSE <<>>)
         \o ClaimedConfidences(items[1])
         \o ClaimedInDict(Tail(keys), Tail(items))

ClaimedInList(items) ==
    IF items = <<>> THEN <<>>
    ELSE ClaimedConfidences(items[1]) \o ClaimedInList(Tail(items))

\* C4: for a reply that is JSON, the average confidence is shown exactly when
\* the tree holds a number under a key containing "confidence", at any depth,
\* and it is the mean of all those numbers.
C4_AverageOverWholeTree ==
    (pc = "done" /\ JsonLoads(result).ok) =>
        LET all == ClaimedConfidences(JsonLoads(result).val)
        IN  /\ ui.average.shown <=> all # <<>>
            /\ ui.average.shown =>
                  ui.average.sum * Len(all) = SumOf(all) * ui.average.count

----------------------------------------------------------------------------
\* C5: a schema-guided run with no schema, or an empty one, makes no
\* completion call.
C5_EmptySchemaRejected ==
    (RunStarted /\ extraction_mode = SchemaGuided /\ Falsy(schema)) => calls = <<>>

----------------------------------------------------------------------------
\* C6: a run that has ended shows one of the outcomes Interpreted,
\* InterpretedFallback or Failed; a run that aborted shows an error message.
C6_EveryRunShowsAnOutcome ==
    pc = "done" => Interpreted \/ InterpretedFallback \/ Failed

----------------------------------------------------------------------------
\* C7: the text in the prompt is the text extracted from the uploaded file
\* whenever a file is uploaded, also when text is pasted as well; it is the
\* pasted text only when no file is uploaded.
C7_DocumentTakesPrecedence ==
    prompt.built =>
        /\ prompt.document =
              IF uploaded_file.present THEN ExtractText(uploaded_file).ret.s
              ELSE text_input
        /\ \A i \in 1..Len(calls) : calls[i].prompt.document = prompt.document

\* a file and pasted text were both supplied and the call carried the file's text
C7_Witness ==
    /\ calls # <<>>
    /\ uploaded_file.present
    /\ text_input # <<>>
    /\ calls[1].prompt.document # text_input
    /\ calls[1].prompt.document = Join(Newline, uploaded_file.units)

----------------------------------------------------------------------------
SupportedTypes == {TypePdf, TypeDocx, TypeText}

\* C8: once input acquisition has run on a file of an unsupported content
\* type, the run has ended with the error naming that type and nothing else,
\* no text came out of the extraction, and no completion call was made.
C8_UnsupportedTypeFails ==
    (/\ uploaded_file.present
     /\ uploaded_file.type \notin SupportedTypes
     /\ api_key # ""
     /\ pc \notin {"idle", "credential", "input"}) =>
        /\ pc = "done"
        /\ extractions = 1
        /\ input_text = None
        /\ ui = ShowError(EmptyUi, "Unsupported file type", uploaded_file.type)
        /\ ~prompt.built
        /\ calls = <<>>

\* a run with a credential, pasted text and a file of unsupported type has ended
C8_Witness ==
    /\ pc = "done"
    /\ api_key # ""
    /\ text_input # <<>>
    /\ uploaded_file.present
    /\ uploaded_file.type = TypeZip
    /\ ui.errors = <<Message("Unsupported file type", TypeZip)>>

----------------------------------------------------------------------------
\* the completion call is made
CallMade == calls' # calls /\ calls' # <<>>

\* C9: a run makes at most one completion call; the call is made from the
\* call stage, with the credential present, the input text acquired, the
\* prompt built and no error shown, and it carries that prompt; once a run
\* has shown an error or has ended, no call is made until a new run.
C9_AtMostOneCallAfterAllStages ==
    /\ [](Len(calls) <= 1)
    /\ [][CallMade =>
            /\ pc = "call"
            /\ calls = <<>>
            /\ api_key # ""
            /\ ~Falsy(input_text)
            /\ prompt.built
            /\ calls'[1].prompt = prompt
            /\ ui = EmptyUi]_vars
    /\ [][(pc = "done" \/ ui.errors # <<>> \/ ui.uncaught) =>
            (calls' = calls \/ (calls' = <<>> /\ pc' \in {"idle", "credential"}))]_vars

\* a schema-guided run has ended after its one call failed
C9_Witness ==
    /\ pc = "done"
    /\ Len(calls) = 1
    /\ ProcessingFailedShown
    /\ calls[1].prompt.template = "schema"

----------------------------------------------------------------------------
\* C10: every completion call carries the credential entered for its own run,
\* whatever credential another run left in openai.api_key, and a run with an
\* empty credential makes no call while another credential is stored.
C10_CallUsesOwnCredential ==
    /\ \A i \in 1..Len(calls) : calls[i].credential = api_key /\ api_key # ""
    /\ (RunStarted /\ api_key = "") => calls = <<>>
====
